---- MODULE Spec2Model ----
(***************************************************************************)
(* Model of src/app.py: the sitemap resolver (WebScraper.scrape_sitemap),  *)
(* the page scraper (WebScraper.scrape_page and its helpers), the prompt   *)
(* construction of StructuredDataGenerator, and the button handlers of     *)
(* main() that chain them.                                                 *)
(*                                                                         *)
(* Text is a tuple of one-character strings, so that strip(), regex search *)
(* and urljoin() are computed rather than assumed.  A Python value that    *)
(* may be None is a tuple of length 0 (None) or 1 (the value).             *)
(***************************************************************************)
EXTENDS Integers, Sequences, FiniteSets, TLC

VARIABLES pc, flow, site, urls, idx, pages_info, schema, httpLog, llmLog,
          stErrors, suggestions, structured_data, arg, ret

vars == <<pc, flow, site, urls, idx, pages_info, schema, httpLog, llmLog,
          stErrors, suggestions, structured_data, arg, ret>>

----------------------------------------------------------------------------
(* Python values *)

None == <<>>

Some(x) == <<x>>

IsNone(o) == o = <<>>

Val(o) == o[1]

\* Python truthiness of an optional string: neither None nor ''.
Truthy(o) == o # <<>> /\ o[1] # <<>>

Min(a, b) == IF a <= b THEN a ELSE b

\* s[:n]
Take(s, n) == SubSeq(s, 1, Min(n, Len(s)))

\* n copies of x
RECURSIVE Rep(_, _)
Rep(x, n) == IF n <= 0 THEN <<>> ELSE <<x>> \o Rep(x, n - 1)

\* sequences over S of length at most n
SeqUpTo(S, n) == UNION {[1..k -> S] : k \in 0..n}

Whitespace == {" ", "\t", "\n"}

RECURSIVE LStrip(_)
LStrip(s) ==
    IF s # <<>> /\ Head(s) \in Whitespace THEN LStrip(Tail(s)) ELSE s

RECURSIVE RStrip(_)
RStrip(s) ==
    IF s # <<>> /\ s[Len(s)] \in Whitespace
    THEN RStrip(SubSeq(s, 1, Len(s) - 1)) ELSE s

\* str.strip()
Strip(s) == RStrip(LStrip(s))

----------------------------------------------------------------------------
(* WebScraper.scrape_sitemap *)

SitemapCap == 50

\* findall('.//ns:url/ns:loc', namespaces): the loc children of url elements,
\* both in the sitemap namespace, in document order.
FindAllUrlLoc(nodes) == SelectSeq(nodes, LAMBDA n : n.tag = "ns:url/ns:loc")

\* for url in found: if url.text: urls.append(url.text.strip())
LocTexts(found) ==
    LET kept == SelectSeq(found, LAMBDA n : Truthy(n.text))
    IN  [k \in 1..Len(kept) |-> Strip(Val(kept[k].text))]

\* The try block of scrape_sitemap raises when the GET fails, when the
\* status is not a success, or when ET.fromstring rejects the content.
SitemapRaises(resp) == resp.status # "ok" \/ ~resp.wellformed

\* scrape_sitemap without the slice
scrape_sitemap_uncapped(resp) ==
    IF SitemapRaises(resp) THEN <<>> ELSE LocTexts(FindAllUrlLoc(resp.nodes))

scrape_sitemap(resp) ==
    IF SitemapRaises(resp) THEN <<>>
    ELSE Take(LocTexts(FindAllUrlLoc(resp.nodes)), SitemapCap)

----------------------------------------------------------------------------
(* Text helpers used by the page scraper *)

UpperCase == <<"A","B","C","D","E","F","G","H","I","J","K","L","M",
               "N","O","P","Q","R","S","T","U","V","W","X","Y","Z">>

LowerCase == <<"a","b","c","d","e","f","g","h","i","j","k","l","m",
               "n","o","p","q","r","s","t","u","v","w","x","y","z">>

\* the folding of one character under re.I
Lower(c) ==
    IF \E k \in 1..26 : UpperCase[k] = c
    THEN LowerCase[CHOOSE k \in 1..26 : UpperCase[k] = c]
    ELSE c

LowerText(s) == [k \in 1..Len(s) |-> Lower(s[k])]

\* sub occurs in s
Contains(s, sub) ==
    \E k \in 1..(Len(s) - Len(sub) + 1) : SubSeq(s, k, k + Len(sub) - 1) = sub

\* re.compile(r'a|b|c', re.I).search(s)
RegexSearch(alts, s) == \E a \in alts : Contains(LowerText(s), a)

SchemeSep == <<":", "/", "/">>

\* index of the first character after "scheme://"
AuthorityStart(u) ==
    3 + CHOOSE k \in 1..(Len(u) - 2) :
            /\ SubSeq(u, k, k + 2) = SchemeSep
            /\ \A j \in 1..(k - 1) : SubSeq(u, j, j + 2) # SchemeSep

\* index of the "/" that starts the path, Len(u) + 1 when the path is empty
PathStart(u) ==
    LET slashes == {k \in AuthorityStart(u)..Len(u) : u[k] = "/"}
    IN  IF slashes = {} THEN Len(u) + 1
        ELSE CHOOSE k \in slashes : \A j \in slashes : k <= j

\* index of the last "/" of the path
LastSlash(u) ==
    CHOOSE k \in PathStart(u)..Len(u) :
        u[k] = "/" /\ \A j \in (k + 1)..Len(u) : u[j] # "/"

\* urllib.parse.urljoin(base, ref) for an absolute http(s) base and a non-empty
\* reference that is absolute ("s://h/p"), root-relative ("/p") or
\* path-relative ("p"): the reference forms the model feeds it.
urljoin(base, ref) ==
    IF Contains(ref, SchemeSep) THEN ref
    ELSE IF Head(ref) = "/" THEN SubSeq(base, 1, PathStart(base) - 1) \o ref
    ELSE IF PathStart(base) > Len(base) THEN base \o <<"/">> \o ref
    ELSE SubSeq(base, 1, LastSlash(base)) \o ref

----------------------------------------------------------------------------
(* WebScraper.scrape_page and its helpers.                                 *)
(* A parsed document (the soup) is a record:                               *)
(*   title : None, or the first <title> tag as [string |-> None or text]   *)
(*   meta  : None, or the first <meta name="description"> tag as           *)
(*           [content |-> None or text]                                    *)
(*   body  : the other tags in document order, each a record               *)
(*           [tag, class (tuple of class tokens), src, alt, title (None or *)
(*            text), text (its get_text()), json (whether json.loads      *)
(*            accepts its string)]                                         *)
(***************************************************************************)

HeadingCap == 5

ImageCap == 10

\* soup.find_all(tag)
FindAllTag(body, tag) == SelectSeq(body, LAMBDA e : e.tag = tag)

\* soup.find_all(tags, class_=re.compile(pattern, re.I)): a tag matches when
\* one of its class tokens does; a tag without class never matches.
FindAllClass(body, tags, alts) ==
    SelectSeq(body, LAMBDA e :
        e.tag \in tags /\ \E k \in 1..Len(e.class) : RegexSearch(alts, e.class[k]))

PricePattern == {<<"p","r","i","c","e">>, <<"p","r","e","z","z","o">>}

ArticlePattern == {<<"a","r","t","i","c","l","e">>, <<"p","o","s","t">>,
                   <<"b","l","o","g">>}

EventPattern == {<<"e","v","e","n","t">>, <<"e","v","e","n","t","o">>,
                 <<"d","a","t","a">>}

AddressPattern == {<<"a","d","d","r","e","s","s">>,
                   <<"i","n","d","i","r","i","z","z","o">>,
                   <<"c","o","n","t","a","c","t">>}

\* detect_content_type with the address rule tried first
detect_content_type_address_first(doc) ==
    IF FindAllClass(doc.body, {"div", "span"}, AddressPattern) # <<>>
    THEN "local_business"
    ELSE IF FindAllClass(doc.body, {"div", "span"}, PricePattern) # <<>>
    THEN "product"
    ELSE IF FindAllClass(doc.body, {"article", "div"}, ArticlePattern) # <<>>
    THEN "article"
    ELSE IF FindAllClass(doc.body, {"div", "span"}, EventPattern) # <<>>
    THEN "event"
    ELSE "webpage"

detect_content_type(doc) ==
    IF FindAllClass(doc.body, {"div", "span"}, PricePattern) # <<>>
    THEN "product"
    ELSE IF FindAllClass(doc.body, {"article", "div"}, ArticlePattern) # <<>>
    THEN "article"
    ELSE IF FindAllClass(doc.body, {"div", "span"}, EventPattern) # <<>>
    THEN "event"
    ELSE IF FindAllClass(doc.body, {"div", "span"}, AddressPattern) # <<>>
    THEN "local_business"
    ELSE "webpage"

\* every <script type="application/ld+json"> whose string json.loads accepts
extract_existing_structured_data(doc) ==
    LET scripts == FindAllTag(doc.body, "script")
        parsed  == SelectSeq(scripts, LAMBDA e : e.json)
    IN  [k \in 1..Len(parsed) |-> [type |-> "json-ld", data |-> parsed[k].text]]

\* soup.title.string.strip() if soup.title else '' raises AttributeError when
\* the <title> tag is there (a Tag is always truthy) and its string is None.
TitleRaises(doc) == ~IsNone(doc.title) /\ IsNone(Val(doc.title).string)

TitleOf(doc) == IF IsNone(doc.title) THEN <<>> ELSE Strip(Val(Val(doc.title).string))

\* meta_desc.get('content', '') if meta_desc else ''
MetaDescriptionOf(doc) ==
    IF IsNone(doc.meta) \/ IsNone(Val(doc.meta).content) THEN <<>>
    ELSE Val(Val(doc.meta).content)

HeadingTag(level) == <<"h1", "h2", "h3", "h4", "h5", "h6">>[level]

\* HeadingsAtLevel without the slice
HeadingsAtLevelUncapped(body, level, cap) ==
    LET hs == FindAllTag(body, HeadingTag(level))
    IN  [k \in 1..Len(hs) |-> [level |-> level, text |-> Strip(hs[k].text)]]

\* for h in soup.find_all(f'h{level}')[:cap]
HeadingsAtLevel(body, level, cap) ==
    LET hs == Take(FindAllTag(body, HeadingTag(level)), cap)
    IN  [k \in 1..Len(hs) |-> [level |-> level, text |-> Strip(hs[k].text)]]

\* for i in range(1, 7): ... appended level by level
RECURSIVE HeadingsFrom(_, _, _)
HeadingsFrom(body, level, cap) ==
    IF level > 6 THEN <<>>
    ELSE HeadingsAtLevel(body, level, cap) \o HeadingsFrom(body, level + 1, cap)

\* img.get(name, '')
GetOr(attr) == IF IsNone(attr) THEN <<>> ELSE Val(attr)

\* ImagesOf with the src test before the slice
ImagesOfFilterFirst(url, body) ==
    LET withSrc == SelectSeq(FindAllTag(body, "img"), LAMBDA e : Truthy(e.src))
        kept    == Take(withSrc, ImageCap)
    IN  [k \in 1..Len(kept) |->
            [src   |-> urljoin(url, Val(kept[k].src)),
             alt   |-> GetOr(kept[k].alt),
             title |-> GetOr(kept[k].title)]]

\* for img in soup.find_all('img')[:10]: src = img.get('src'); if src: append
ImagesOf(url, body) ==
    LET first == Take(FindAllTag(body, "img"), ImageCap)
        kept  == SelectSeq(first, LAMBDA e : Truthy(e.src))
    IN  [k \in 1..Len(kept) |->
            [src   |-> urljoin(url, Val(kept[k].src)),
             alt   |-> GetOr(kept[k].alt),
             title |-> GetOr(kept[k].title)]]

\* the page_info built by the try block of scrape_page
PageInfo(url, doc) ==
    [url              |-> url,
     title            |-> TitleOf(doc),
     meta_description |-> MetaDescriptionOf(doc),
     headings         |-> HeadingsFrom(doc.body, 1, HeadingCap),
     images           |-> ImagesOf(url, doc.body),
     links            |-> <<>>,
     content_type     |-> detect_content_type(doc),
     structured_data  |-> extract_existing_structured_data(doc)]

\* the except branch of scrape_page
ErrorRecord(url, e) == [url |-> url, error |-> e]

\* resp: [status |-> "ok", doc |-> the parsed content], or a status that makes
\* session.get or raise_for_status raise.
scrape_page(url, resp) ==
    IF resp.status # "ok" THEN ErrorRecord(url, resp.status)
    ELSE IF TitleRaises(resp.doc) THEN ErrorRecord(url, "AttributeError")
    ELSE PageInfo(url, resp.doc)

\* 'error' in page
HasError(page) == "error" \in DOMAIN page

----------------------------------------------------------------------------
(* StructuredDataGenerator *)

SuggestCap == 5

SummaryHeadingCap == 3

\* the f-string summary of one page: URL, Titolo, Tipo, Headings
Summary(page) ==
    [url          |-> page.url,
     title        |-> page.title,
     content_type |-> page.content_type,
     headings     |-> LET hs == Take(page.headings, SummaryHeadingCap)
                      IN  [k \in 1..Len(hs) |-> hs[k].text]]

\* a summary that tolerates a record without title, content_type, headings
SummaryOrError(page) ==
    IF HasError(page)
    THEN [url |-> page.url, title |-> <<>>, content_type |-> "error",
          headings |-> <<>>]
    ELSE Summary(page)

\* PagesSummary without the 'error' test
PagesSummaryUnfiltered(pages) ==
    LET kept == Take(pages, SuggestCap)
    IN  [k \in 1..Len(kept) |-> SummaryOrError(kept[k])]

\* PagesSummary with the 'error' test before the slice
PagesSummaryFilterFirst(pages) ==
    LET kept == Take(SelectSeq(pages, LAMBDA p : ~HasError(p)), SuggestCap)
    IN  [k \in 1..Len(kept) |-> Summary(kept[k])]

\* for page in pages_info[:5]: if 'error' not in page: pages_summary.append(..)
PagesSummary(pages) ==
    LET kept == SelectSeq(Take(pages, SuggestCap), LAMBDA p : ~HasError(p))
    IN  [k \in 1..Len(kept) |-> Summary(kept[k])]

\* the request of suggest_structured_data: the prompt is the fixed text around
\* the joined summaries
SuggestRequest(pages) ==
    [kind |-> "suggest", pages_summary |-> PagesSummary(pages)]

EmptySuggestions == [kind |-> "dict", suggestions |-> Some(<<>>)]

\* the try block of suggest_structured_data raises when the call fails or when
\* json.loads rejects the content
SuggestRaises(resp) == resp.status # "ok" \/ ~resp.json

\* resp: [status |-> "fail"], or [status |-> "ok", json |-> whether the content
\* parses, value |-> the parsed value]
suggest_structured_data(pages, resp) ==
    IF SuggestRaises(resp) THEN EmptySuggestions ELSE resp.value

\* schema_to_use = custom_schema if custom_schema else schema_type
SchemaToUse(schema_type, custom_schema) ==
    IF Truthy(custom_schema) THEN Val(custom_schema) ELSE schema_type

\* the request of generate_structured_data; .get(key, default) for the three
\* optional keys
GenerateRequest(page, schema_type, custom_schema) ==
    [kind             |-> "generate",
     schema           |-> SchemaToUse(schema_type, custom_schema),
     url              |-> page.url,
     title            |-> page.title,
     meta_description |-> page.meta_description,
     headings         |-> page.headings,
     images           |-> page.images]

\* the f-string of the prompt reads page_info['url'] and page_info['title']
\* before the try block: a record without them raises KeyError to the caller
GenerateRaises(page) == ~({"url", "title"} \subseteq DOMAIN page)

\* generate_structured_data trimming the answer
generate_structured_data_stripped(page, schema_type, custom_schema, resp) ==
    IF resp.status # "ok" THEN <<>> ELSE Strip(resp.content)

\* resp: [status |-> "fail"], or [status |-> "ok", content |-> text]
generate_structured_data(page, schema_type, custom_schema, resp) ==
    IF resp.status # "ok" THEN <<>> ELSE resp.content

----------------------------------------------------------------------------
(* main(): what the display code and the input parsing of the handlers do *)

BatchCap == 10

\* str.split('\n')
RECURSIVE SplitLines(_)
SplitLines(s) ==
    IF \A k \in 1..Len(s) : s[k] # "\n" THEN <<s>>
    ELSE LET k == CHOOSE j \in 1..Len(s) :
                      s[j] = "\n" /\ \A m \in 1..(j - 1) : s[m] # "\n"
         IN  <<SubSeq(s, 1, k - 1)>> \o SplitLines(SubSeq(s, k + 1, Len(s)))

\* urls = [url.strip() for url in urls_input.split('\n') if url.strip()]
ParseUrls(urls_input) ==
    LET lines == SplitLines(urls_input)
        kept  == SelectSeq(lines, LAMBDA l : Strip(l) # <<>>)
    IN  [k \in 1..Len(kept) |-> Strip(kept[k])]

\* Batch without the slice of the sitemap loop
BatchUncapped(fl, us) == us

\* the URLs the loop of a batch iterates: urls[:10] for a sitemap, urls for
\* the URL list
Batch(fl, us) == IF fl = "sitemap" THEN Take(us, BatchCap) ELSE us

\* session.get raises before any request is sent when the URL has no scheme
ValidUrl(u) == Contains(u, SchemeSep)

\* the display of the suggestions raises when the result is not a dict (no
\* .get), when an entry is not a dict, or when an entry lacks 'schema_type'
\* or 'reason' (suggestion['schema_type'], suggestion['reason'])
ShowRaises(result) ==
    \/ result.kind # "dict"
    \/ /\ Truthy(result.suggestions)
       /\ \E k \in 1..Len(Val(result.suggestions)) :
            LET e == Val(result.suggestions)[k]
            IN  e.kind # "dict" \/ IsNone(e.schema_type) \/ IsNone(e.reason)

\* the last entry of the schema selectbox
Altro == <<"Altro">>

\* custom_schema: the text input when the option is "Altro", else the option
CustomSchema(schema_option, custom_text) ==
    IF schema_option = Altro THEN custom_text ELSE schema_option

\* target and (custom_schema or schema_option != Altro)
GenerateGuard(target, schema_option, custom_text) ==
    /\ target # <<>>
    /\ (CustomSchema(schema_option, custom_text) # <<>> \/ schema_option # Altro)

\* the two schema arguments the handlers pass to generate_structured_data
SchemaArgs(schema_option, custom_text) ==
    [schema_type   |-> IF schema_option # Altro THEN schema_option
                       ELSE CustomSchema(schema_option, custom_text),
     custom_schema |-> IF schema_option = Altro
                       THEN Some(CustomSchema(schema_option, custom_text))
                       ELSE None]

RawHeadingCap == 3

\* 'https://esempio.com'
DefaultUrl == <<"h", "t", "t", "p", "s", ":", "/", "/", "e", "s", "e", "m", "p",
                "i", "o", ".", "c", "o", "m">>

\* the page_info the "Codice Sorgente" handler builds from the pasted markup
RawPageInfo(doc, target_url_manual) ==
    [url              |-> IF target_url_manual # <<>> THEN target_url_manual
                          ELSE DefaultUrl,
     title            |-> TitleOf(doc),
     meta_description |-> MetaDescriptionOf(doc),
     headings         |-> HeadingsFrom(doc.body, 1, RawHeadingCap),
     images           |-> <<>>,
     content_type     |-> "webpage"]

----------------------------------------------------------------------------
(* Inputs: URLs, documents, responses *)

\* most URLs a batch input holds
MaxUrls == 11

UrlA == <<"h", "t", "t", "p", ":", "/", "/", "x", "/", "a">>

UrlB == <<"h", "t", "t", "p", ":", "/", "/", "x", "/", "d", "/", "b">>

SitemapUrl == <<"h", "t", "t", "p", ":", "/", "/", "x", "/", "s">>

El == [tag |-> "", class |-> <<>>, src |-> None, alt |-> None, title |-> None,
       text |-> <<>>, json |-> FALSE]

Img(src, alt) == [El EXCEPT !.tag = "img", !.src = src, !.alt = alt]

Classed(tag, class) == [El EXCEPT !.tag = tag, !.class = class]

Heading(level, text) == [El EXCEPT !.tag = HeadingTag(level), !.text = text]

Script(ok) ==
    [El EXCEPT !.tag = "script", !.json = ok,
               !.text = IF ok THEN <<"{", "}">> ELSE <<"{">>]

TitleTag(string) == Some([string |-> string])

MetaTag(content) == Some([content |-> content])

DocPlain ==
    [title |-> TitleTag(Some(<<" ", "T", " ">>)),
     meta  |-> MetaTag(Some(<<"D">>)),
     body  |-> <<Heading(1, <<"H", " ">>), Img(Some(<<"/", "a">>), Some(<<"A">>)),
                 Classed("div", <<<<"P", "r", "i", "c", "e">>>>), Script(FALSE),
                 Script(TRUE)>>]

DocNoTitle == [title |-> None, meta |-> None, body |-> <<Heading(2, <<"K">>)>>]

DocEmptyTitle == [DocPlain EXCEPT !.title = TitleTag(None)]

OkPage(doc) == [status |-> "ok", doc |-> doc]

\* what the target site answers to the page fetches of one run: a good page
\* or one kind of failure
SiteModes ==
    {{OkPage(DocPlain), [status |-> "http_404"]},
     {OkPage(DocNoTitle), [status |-> "timeout"]},
     {OkPage(DocPlain), OkPage(DocEmptyTitle)}}

LocNode(tag, text) == [tag |-> tag, text |-> text]

OkSitemap(wellformed, nodes) ==
    [status |-> "ok", wellformed |-> wellformed, nodes |-> nodes]

\* what the sitemap fetch of a batch answers
FlowSitemapResponses ==
    {[status |-> "conn_error"], [status |-> "http_404"], OkSitemap(FALSE, <<>>)}
    \cup {OkSitemap(TRUE, Rep(LocNode("ns:url/ns:loc", Some(<<" ">> \o UrlA)), n))
            : n \in 0..MaxUrls}
    \cup {OkSitemap(TRUE, <<LocNode("ns:url/ns:loc", None),
                            LocNode("ns:url/ns:loc", Some(<<" ">>)),
                            LocNode("url/loc", Some(UrlA)),
                            LocNode("ns:url/ns:loc", Some(UrlB))>>)}

JoinLines(lines) ==
    IF lines = <<>> THEN <<>>
    ELSE LET RECURSIVE J(_)
             J(k) == IF k = Len(lines) THEN lines[k]
                     ELSE lines[k] \o <<"\n">> \o J(k + 1)
         IN  J(1)

\* the text area of "URL Specifici": empty, blank lines only, or up to MaxUrls
\* lines with a URL after an optional first line
UrlInputs ==
    {JoinLines(pre \o Rep(UrlA \o <<" ">>, n)) :
        pre \in {<<>>, <<<<" ">>>>, <<UrlB>>, <<<<"x">>, <<>>>>},
        n \in 0..(MaxUrls - 1)}

SuggestionEntry(schema_type, reason) ==
    [kind |-> "dict", schema_type |-> schema_type, reason |-> reason,
     priority |-> Some("high"), pages |-> Some(<<UrlA>>)]

JsonDict(entries) == [kind |-> "dict", suggestions |-> entries]

OkJson(value) == [status |-> "ok", json |-> TRUE, value |-> value]

\* what the generation service answers to the suggestion request
SuggestResponses ==
    {[status |-> "fail"],
     [status |-> "ok", json |-> FALSE, value |-> JsonDict(None)],
     OkJson(JsonDict(Some(<<SuggestionEntry(Some("Product"), Some("r"))>>))),
     OkJson(JsonDict(Some(<<>>))),
     OkJson(JsonDict(None)),
     OkJson([kind |-> "list", suggestions |-> None]),
     OkJson(JsonDict(Some(<<SuggestionEntry(None, Some("r"))>>)))}

\* what the generation service answers to the generation request
GenerateResponses ==
    {[status |-> "fail"], [status |-> "ok", content |-> <<"{", "}">>],
     [status |-> "ok", content |-> <<"x">>]}

SchemaOptions == {<<"Product">>, Altro}

CustomTexts == {<<>>, <<"Recipe">>}

----------------------------------------------------------------------------
(* The handlers of main(), one step per network call *)

\* the responses a fetch of url can get: session.get raises for a URL
\* without scheme, else the site answers
PageResponses(url) ==
    IF ValidUrl(url) THEN site ELSE {[status |-> "invalid_url"]}

Init ==
    /\ pc = "idle"
    /\ flow = "none"
    /\ site \in SiteModes
    /\ urls = <<>>
    /\ idx = 1
    /\ pages_info = <<>>
    /\ schema = SchemaArgs(<<"Product">>, <<>>)
    /\ httpLog = <<>>
    /\ llmLog = <<>>
    /\ stErrors = <<>>
    /\ suggestions = JsonDict(None)
    /\ structured_data = <<>>
    /\ arg = <<>>
    /\ ret = <<>>

\* AnalyzeSitemap without the "if urls:" test: the suggestion request follows
\* an empty URL list
AnalyzeSitemapUnguarded(sitemap_url, resp) ==
    /\ pc = "idle"
    /\ flow' = "sitemap"
    /\ IF sitemap_url = <<>>
       THEN /\ pc' = "done"
            /\ UNCHANGED <<urls, httpLog, stErrors>>
       ELSE /\ urls' = scrape_sitemap(resp)
            /\ httpLog' = Append(httpLog, [kind |-> "sitemap", url |-> sitemap_url,
                                           ok |-> ~SitemapRaises(resp)])
            /\ stErrors' = IF SitemapRaises(resp)
                           THEN Append(stErrors, "sitemap") ELSE stErrors
            /\ pc' = IF urls' # <<>> THEN "scrape" ELSE "suggest"
    /\ UNCHANGED <<site, idx, pages_info, schema, llmLog, suggestions,
                   structured_data, arg, ret>>

\* "Analizza Sitemap": if sitemap_url: urls = scrape_sitemap(sitemap_url);
\* if urls: the page loop follows
AnalyzeSitemap(sitemap_url, resp) ==
    /\ pc = "idle"
    /\ flow' = "sitemap"
    /\ IF sitemap_url = <<>>
       THEN /\ pc' = "done"
            /\ UNCHANGED <<urls, httpLog, stErrors>>
       ELSE /\ urls' = scrape_sitemap(resp)
            /\ httpLog' = Append(httpLog, [kind |-> "sitemap", url |-> sitemap_url,
                                           ok |-> ~SitemapRaises(resp)])
            /\ stErrors' = IF SitemapRaises(resp)
                           THEN Append(stErrors, "sitemap") ELSE stErrors
            /\ pc' = IF urls' # <<>> THEN "scrape" ELSE "done"
    /\ UNCHANGED <<site, idx, pages_info, schema, llmLog, suggestions,
                   structured_data, arg, ret>>

\* "Analizza URL": if urls_input: the lines are parsed and the page loop
\* follows, then the suggestion request
AnalyzeUrls(urls_input) ==
    /\ pc = "idle"
    /\ flow' = "urls"
    /\ IF urls_input = <<>>
       THEN pc' = "done" /\ UNCHANGED urls
       ELSE /\ urls' = ParseUrls(urls_input)
            /\ pc' = IF urls' # <<>> THEN "scrape" ELSE "suggest"
    /\ UNCHANGED <<site, idx, pages_info, schema, httpLog, llmLog, stErrors,
                   suggestions, structured_data, arg, ret>>

\* ScrapeNext leaving the loop at the first page that fails
ScrapeNextAbort ==
    /\ pc = "scrape"
    /\ idx <= Len(Batch(flow, urls))
    /\ \E resp \in PageResponses(Batch(flow, urls)[idx]) :
         LET url  == Batch(flow, urls)[idx]
             page == scrape_page(url, resp)
         IN  /\ pages_info' = Append(pages_info, page)
             /\ httpLog' = Append(httpLog, [kind |-> "page", url |-> url,
                                            ok |-> resp.status = "ok"])
             /\ stErrors' = IF HasError(page)
                            THEN Append(stErrors, "scrape") ELSE stErrors
             /\ pc' = IF idx = Len(Batch(flow, urls)) \/ HasError(page)
                      THEN "suggest" ELSE "scrape"
    /\ idx' = idx + 1
    /\ UNCHANGED <<flow, site, urls, schema, llmLog, suggestions,
                   structured_data, arg, ret>>

\* one iteration of the page loop: page_info = scraper.scrape_page(url);
\* pages_info.append(page_info)
ScrapeNext ==
    /\ pc = "scrape"
    /\ idx <= Len(Batch(flow, urls))
    /\ \E resp \in PageResponses(Batch(flow, urls)[idx]) :
         LET url  == Batch(flow, urls)[idx]
             page == scrape_page(url, resp)
         IN  /\ pages_info' = Append(pages_info, page)
             /\ httpLog' = Append(httpLog, [kind |-> "page", url |-> url,
                                            ok |-> resp.status = "ok"])
             /\ stErrors' = IF HasError(page)
                            THEN Append(stErrors, "scrape") ELSE stErrors
    /\ idx' = idx + 1
    /\ pc' = IF idx = Len(Batch(flow, urls)) THEN "suggest" ELSE "scrape"
    /\ UNCHANGED <<flow, site, urls, schema, llmLog, suggestions,
                   structured_data, arg, ret>>

\* suggestions = generator.suggest_structured_data(pages_info)
Suggest(resp) ==
    /\ pc = "suggest"
    /\ llmLog' = Append(llmLog, SuggestRequest(pages_info))
    /\ suggestions' = suggest_structured_data(pages_info, resp)
    /\ stErrors' = IF SuggestRaises(resp)
                   THEN Append(stErrors, "suggest") ELSE stErrors
    /\ pc' = "show"
    /\ UNCHANGED <<flow, site, urls, idx, pages_info, schema, httpLog,
                   structured_data, arg, ret>>

\* the display of the suggestions
Show ==
    /\ pc = "show"
    /\ pc' = IF ShowRaises(suggestions) THEN "crashed" ELSE "done"
    /\ UNCHANGED <<flow, site, urls, idx, pages_info, schema, httpLog, llmLog,
                   stErrors, suggestions, structured_data, arg, ret>>

\* "Genera Dati Strutturati": page_info = scraper.scrape_page(target_url);
\* if 'error' not in page_info: the generation request follows
GenerateForUrl(target_url, schema_option, custom_text) ==
    /\ pc = "idle"
    /\ flow' = "genurl"
    /\ IF ~GenerateGuard(target_url, schema_option, custom_text)
       THEN /\ pc' = "done"
            /\ UNCHANGED <<pages_info, schema, httpLog, stErrors>>
       ELSE \E resp \in PageResponses(target_url) :
              LET page == scrape_page(target_url, resp)
              IN  /\ pages_info' = <<page>>
                  /\ schema' = SchemaArgs(schema_option, custom_text)
                  /\ httpLog' = Append(httpLog, [kind |-> "page", url |-> target_url,
                                                 ok |-> resp.status = "ok"])
                  /\ stErrors' = IF HasError(page)
                                 THEN Append(stErrors, "scrape") ELSE stErrors
                  /\ pc' = IF HasError(page) THEN "done" ELSE "generate"
    /\ UNCHANGED <<site, urls, idx, llmLog, suggestions, structured_data, arg, ret>>

\* "Genera da Codice Sorgente": the pasted markup is parsed in the handler,
\* outside any try block, then the generation request follows
GenerateForRaw(source_code, target_url_manual, schema_option, custom_text) ==
    /\ pc = "idle"
    /\ flow' = "genraw"
    /\ IF IsNone(source_code) \/ ~GenerateGuard(<<"s">>, schema_option, custom_text)
       THEN pc' = "done" /\ UNCHANGED <<pages_info, schema>>
       ELSE IF TitleRaises(Val(source_code))
       THEN pc' = "crashed" /\ UNCHANGED <<pages_info, schema>>
       ELSE /\ pages_info' = <<RawPageInfo(Val(source_code), target_url_manual)>>
            /\ schema' = SchemaArgs(schema_option, custom_text)
            /\ pc' = "generate"
    /\ UNCHANGED <<site, urls, idx, httpLog, llmLog, stErrors, suggestions,
                   structured_data, arg, ret>>

\* structured_data = generator.generate_structured_data(page_info, ...)
Generate(resp) ==
    /\ pc = "generate"
    /\ llmLog' = Append(llmLog, GenerateRequest(pages_info[1], schema.schema_type,
                                                schema.custom_schema))
    /\ structured_data' = generate_structured_data(pages_info[1], schema.schema_type,
                                                   schema.custom_schema, resp)
    /\ stErrors' = IF resp.status # "ok"
                   THEN Append(stErrors, "generate") ELSE stErrors
    /\ pc' = "done"
    /\ UNCHANGED <<flow, site, urls, idx, pages_info, schema, httpLog,
                   suggestions, arg, ret>>

\* the markup pasted into "Codice Sorgente": nothing, or a document
RawInputs == {None, Some(DocPlain), Some(DocNoTitle), Some(DocEmptyTitle)}

Next ==
    \/ \E u \in {<<>>, SitemapUrl}, r \in FlowSitemapResponses : AnalyzeSitemap(u, r)
    \/ \E t \in UrlInputs : AnalyzeUrls(t)
    \/ ScrapeNext
    \/ \E r \in SuggestResponses : Suggest(r)
    \/ Show
    \/ \E u \in {<<>>, UrlA, <<"x">>}, o \in SchemaOptions, c \in CustomTexts :
          GenerateForUrl(u, o, c)
    \/ \E s \in RawInputs, u \in {<<>>, UrlA}, o \in SchemaOptions, c \in CustomTexts :
          GenerateForRaw(s, u, o, c)
    \/ \E r \in GenerateResponses : Generate(r)

Spec == Init /\ [][Next]_vars

----------------------------------------------------------------------------
(* scrape_sitemap alone, over sitemap documents up to and beyond its cap *)

\* longest run of equal loc nodes in a sitemap document
MaxLocRun == 51

LocKinds ==
    {LocNode("ns:url/ns:loc", Some(<<" ">> \o UrlA \o <<"\n">>)),
     LocNode("ns:url/ns:loc", Some(UrlB)),
     LocNode("ns:url/ns:loc", None),
     LocNode("ns:url/ns:loc", Some(<<" ", "\t">>)),
     LocNode("url/loc", Some(UrlA)),
     LocNode("ns:sitemap/ns:loc", Some(UrlB))}

SitemapInputs ==
    {[status |-> "conn_error"], [status |-> "http_404"], OkSitemap(FALSE, <<>>)}
    \cup {OkSitemap(TRUE, pre \o Rep(f, n) \o post) :
            pre \in SeqUpTo(LocKinds, 1), f \in LocKinds, n \in 0..MaxLocRun,
            post \in SeqUpTo(LocKinds, 1)}

\* the handlers' state, untouched while one function is exercised
HandlersIdle ==
    /\ flow = "none"
    /\ site = {}
    /\ urls = <<>>
    /\ idx = 1
    /\ pages_info = <<>>
    /\ schema = SchemaArgs(<<"Product">>, <<>>)
    /\ httpLog = <<>>
    /\ llmLog = <<>>
    /\ stErrors = <<>>
    /\ suggestions = JsonDict(None)
    /\ structured_data = <<>>

handlerVars == <<flow, site, urls, idx, pages_info, schema, httpLog, llmLog,
                 stErrors, suggestions, structured_data>>

InitSitemap ==
    /\ pc = "call"
    /\ arg \in SitemapInputs
    /\ ret = <<>>
    /\ HandlersIdle

\* urls = scraper.scrape_sitemap(sitemap_url), the fetch answering arg
CallScrapeSitemap ==
    /\ pc = "call"
    /\ ret' = scrape_sitemap(arg)
    /\ pc' = "returned"
    /\ UNCHANGED <<arg, handlerVars>>

NextSitemap == CallScrapeSitemap

SpecSitemap == InitSitemap /\ [][NextSitemap]_vars

----------------------------------------------------------------------------
(* scrape_page alone, over documents that exercise each part of it *)

\* longest run of equal tags in a document
MaxTagRun == 11

TokPrice == <<"p", "r", "i", "c", "e">>

TokPrezzo == <<"P", "r", "e", "z", "z", "o", "-", "b", "i", "g">>

TokPost == <<"P", "o", "s", "t">>

TokBlog == <<"b", "l", "o", "g">>

TokEvent == <<"e", "v", "e", "n", "t", "-", "l", "i", "s", "t">>

TokData == <<"d", "a", "t", "a">>

TokAddress == <<"a", "d", "d", "r", "e", "s", "s">>

TokContact == <<"C", "o", "n", "t", "a", "c", "t">>

TokPostal == <<"p", "o", "s", "t", "a", "l", "-", "a", "d", "d", "r", "e", "s", "s">>

TokOther == <<"b", "o", "x">>

ClassKinds ==
    {Classed("div", <<TokPrice>>), Classed("span", <<TokOther, TokPrezzo>>),
     Classed("p", <<TokPrice>>), Classed("article", <<TokPrice>>),
     Classed("article", <<TokPost>>), Classed("div", <<TokBlog>>),
     Classed("span", <<TokPost>>), Classed("div", <<TokEvent>>),
     Classed("span", <<TokData>>), Classed("div", <<TokAddress>>),
     Classed("span", <<TokContact>>), Classed("div", <<TokPostal>>),
     Classed("div", <<>>), Classed("div", <<TokOther>>)}

ImgKinds ==
    {Img(None, Some(<<"A">>)), Img(Some(<<>>), None),
     Img(Some(<<"/", "a">>), Some(<<"A">>)),
     Img(Some(<<"h", "t", "t", "p", ":", "/", "/", "c", "/", "i">>), None),
     Img(Some(<<"i">>), None)}

TitleKinds ==
    {None, TitleTag(None), TitleTag(Some(<<" ", "T", "\n">>)), TitleTag(Some(<<" ">>))}

MetaKinds == {None, MetaTag(None), MetaTag(Some(<<"D">>))}

GoodTitle == TitleTag(Some(<<"T">>))

\* documents varying the classed tags, the images, and the title and meta
ExtractDocs ==
    {[title |-> GoodTitle, meta |-> None, body |-> b] : b \in SeqUpTo(ClassKinds, 2)}
    \cup {[title |-> GoodTitle, meta |-> None, body |-> Rep(f, n) \o post] :
            f \in ImgKinds \cup {Classed("div", <<>>)}, n \in 0..MaxTagRun,
            post \in SeqUpTo(ImgKinds, 2)}
    \cup {[title |-> t, meta |-> m, body |-> b] :
            t \in TitleKinds, m \in MetaKinds,
            b \in {<<>>, DocPlain.body, <<Script(FALSE)>>}}

ExtractInputs ==
    {[url |-> u, resp |-> r] :
        u \in {UrlA, UrlB},
        r \in {[status |-> "http_404"], [status |-> "timeout"]}
              \cup {OkPage(d) : d \in ExtractDocs}}

InitExtract ==
    /\ pc = "call"
    /\ arg \in ExtractInputs
    /\ ret = <<>>
    /\ HandlersIdle

\* page_info = scraper.scrape_page(url), the fetch answering arg.resp
CallScrapePage ==
    /\ pc = "call"
    /\ ret' = scrape_page(arg.url, arg.resp)
    /\ pc' = "returned"
    /\ UNCHANGED <<arg, handlerVars>>

NextExtract == CallScrapePage

SpecExtract == InitExtract /\ [][NextExtract]_vars

----------------------------------------------------------------------------
(* generate_structured_data alone *)

\* the records a caller can pass: page records of both handlers, and an
\* error record
GeneratePages ==
    {PageInfo(u, d) : u \in {UrlA, UrlB}, d \in {DocPlain, DocNoTitle}}
    \cup {RawPageInfo(d, u) : d \in {DocPlain, DocNoTitle}, u \in {<<>>, UrlA}}
    \cup {ErrorRecord(UrlA, "http_404")}

\* what the generation service answers: no answer, or a text
GenerateAnswers ==
    GenerateResponses
    \cup {[status |-> "ok", content |-> <<" ", "{", "}", "\n">>],
          [status |-> "ok", content |-> <<>>]}

GenerateInputs ==
    {[page |-> p, schema_type |-> t, custom_schema |-> c, resp |-> r] :
        p \in GeneratePages, t \in {<<"Product">>, <<"Recipe">>},
        c \in {None, Some(<<>>), Some(<<"Recipe">>)}, r \in GenerateAnswers}

InitGenerate ==
    /\ pc = "call"
    /\ arg \in GenerateInputs
    /\ ret = <<>>
    /\ HandlersIdle

\* generator.generate_structured_data(page_info, schema_type, custom_schema),
\* the service answering arg.resp
CallGenerate ==
    /\ pc = "call"
    /\ IF GenerateRaises(arg.page)
       THEN /\ pc' = "crashed"
            /\ UNCHANGED <<llmLog, stErrors, ret>>
       ELSE /\ llmLog' = Append(llmLog, GenerateRequest(arg.page, arg.schema_type,
                                                        arg.custom_schema))
            /\ stErrors' = IF arg.resp.status # "ok"
                           THEN Append(stErrors, "generate") ELSE stErrors
            /\ ret' = generate_structured_data(arg.page, arg.schema_type,
                                               arg.custom_schema, arg.resp)
            /\ pc' = "returned"
    /\ UNCHANGED <<arg, flow, site, urls, idx, pages_info, schema, httpLog,
                   suggestions, structured_data>>

NextGenerate == CallGenerate

SpecGenerate == InitGenerate /\ [][NextGenerate]_vars

----------------------------------------------------------------------------
(* The two extractions, scrape_page and the one of the "Codice Sorgente"   *)
(* handler, over documents with runs of headings and images                *)

HeadingKinds ==
    {Heading(1, <<"A", " ">>), Heading(1, <<"B">>), Heading(2, <<" ", "C">>),
     Heading(3, <<>>), Heading(6, <<"F">>)}

HeadingDocs ==
    {[title |-> t, meta |-> None, body |-> Rep(f, n) \o post] :
        t \in {None, GoodTitle},
        f \in HeadingKinds \cup {Img(Some(<<"/", "a">>), None)},
        n \in 0..MaxTagRun,
        post \in SeqUpTo(HeadingKinds, 2)}

HeadingInputs == {[url |-> UrlA, resp |-> OkPage(d)] : d \in HeadingDocs}

InitHeadings ==
    /\ pc = "call"
    /\ arg \in HeadingInputs
    /\ ret = <<>>
    /\ HandlersIdle

\* the page_info of the "Codice Sorgente" handler for the markup arg.resp.doc
\* pasted with the reference URL arg.url
CallRawPageInfo ==
    /\ pc = "call"
    /\ IF TitleRaises(arg.resp.doc)
       THEN pc' = "crashed" /\ UNCHANGED ret
       ELSE /\ ret' = RawPageInfo(arg.resp.doc, arg.url)
            /\ pc' = "returned_raw"
    /\ UNCHANGED <<arg, handlerVars>>

NextHeadings == CallScrapePage \/ CallRawPageInfo

SpecHeadings == InitHeadings /\ [][NextHeadings]_vars

----------------------------------------------------------------------------
(* Properties *)

\* the positions of the error-free records among the first n of pages
ErrorFree(pages, n) == {k \in 1..Min(n, Len(pages)) : ~HasError(pages[k])}

\* the j-th smallest member of the set of positions I
NthOf(I, j) == CHOOSE k \in I : Cardinality({m \in I : m <= k}) = j

SuggestRequests == SelectSeq(llmLog, LAMBDA r : r.kind = "suggest")

GenerateRequests == SelectSeq(llmLog, LAMBDA r : r.kind = "generate")

\* C1: a page record that carries `error` is never in a prompt: every summary
\* of a suggestion request is the summary of an error-free page of the batch
\* and there are no more summaries than error-free pages; a generation
\* request is about an error-free page; and generateForUrl sends no request
\* when scrape_page returned an error record.
C1_ErrorPagesNeverInPrompt ==
    /\ \A r \in 1..Len(SuggestRequests) :
         LET ps == SuggestRequests[r].pages_summary
         IN  /\ Len(ps) <= Cardinality(ErrorFree(pages_info, Len(pages_info)))
             /\ \A j \in 1..Len(ps) :
                  \E k \in ErrorFree(pages_info, Len(pages_info)) :
                      ps[j] = Summary(pages_info[k])
    /\ \A r \in 1..Len(GenerateRequests) :
         /\ ~HasError(pages_info[1])
         /\ GenerateRequests[r].url = pages_info[1].url
    /\ (flow = "genurl" /\ pages_info # <<>> /\ HasError(pages_info[1]))
         => (llmLog = <<>> /\ pc = "done")

\* C1 witness: a suggestion request with a summary was sent for a batch whose
\* first five pages include an error record.
C1_Witness ==
    /\ SuggestRequests # <<>>
    /\ SuggestRequests[1].pages_summary # <<>>
    /\ ErrorFree(pages_info, SuggestCap) # 1..Min(SuggestCap, Len(pages_info))

\* C2 as stated: the summaries are those of the first min(5, number of
\* error-free pages) error-free pages of the whole input, in input order.
C2_FilterBeforeCap ==
    \A r \in 1..Len(SuggestRequests) :
        LET ps == SuggestRequests[r].pages_summary
            E  == ErrorFree(pages_info, Len(pages_info))
        IN  /\ Len(ps) = Min(SuggestCap, Cardinality(E))
            /\ \A j \in 1..Len(ps) : ps[j] = Summary(pages_info[NthOf(E, j)])

\* C2 amended: the cap of 5 is applied first; the summaries are those of the
\* error-free pages among the first 5 input pages, in input order.
C2_CapBeforeFilter ==
    \A r \in 1..Len(SuggestRequests) :
        LET ps == SuggestRequests[r].pages_summary
            E  == ErrorFree(pages_info, SuggestCap)
        IN  /\ Len(ps) = Cardinality(E)
            /\ \A j \in 1..Len(ps) : ps[j] = Summary(pages_info[NthOf(E, j)])

\* C2 witness: a request was sent for a batch with an error record among its
\* first five pages and an error-free page after them.
C2_Witness ==
    /\ SuggestRequests # <<>>
    /\ Len(pages_info) > SuggestCap
    /\ Cardinality(ErrorFree(pages_info, SuggestCap)) < SuggestCap
    /\ ~HasError(pages_info[SuggestCap + 1])
    /\ Len(SuggestRequests[1].pages_summary) < SuggestCap

\* C3 as stated: with an empty page sequence no request is sent to the
\* generation service and the suggestion sequence returned is empty.
C3_EmptyPagesNoRequest ==
    (flow \in {"sitemap", "urls"} /\ pages_info = <<>>)
        => /\ SuggestRequests = <<>>
           /\ pc = "show" => suggestions = EmptySuggestions

\* the page fetches made so far, in order
PageFetches == SelectSeq(httpLog, LAMBDA h : h.kind = "page")

\* the page loop and everything after it in the handler are over, or the
\* handler is past the loop
LoopOver == pc \in {"suggest", "show", "done", "crashed"}

\* C4: in a batch a failed page fetch neither aborts the batch nor is
\* retried: the fetches made are the URLs of the batch, once each and in
\* order; there is one record per fetch, with the URL fetched; the record of
\* a failed fetch carries `error`; and when the loop is over every URL of the
\* batch was fetched.
C4_FailedFetchKeepsBatchGoing ==
    flow \in {"sitemap", "urls"} =>
        LET B == Batch(flow, urls)
            F == PageFetches
        IN  /\ Len(pages_info) = Len(F)
            /\ Len(F) <= Len(B)
            /\ \A k \in 1..Len(F) :
                 /\ F[k].url = B[k]
                 /\ pages_info[k].url = B[k]
                 /\ ~F[k].ok => HasError(pages_info[k])
            /\ LoopOver => Len(F) = Len(B)
            /\ pc = "scrape" => (Len(F) = idx - 1 /\ idx <= Len(B))

\* C4 witness: a batch ended in which a failed fetch was followed by a
\* successful one.
C4_Witness ==
    /\ flow \in {"sitemap", "urls"}
    /\ pc = "done"
    /\ \E k \in 1..(Len(PageFetches) - 1) :
         /\ ~PageFetches[k].ok
         /\ PageFetches[k + 1].ok
         /\ HasError(pages_info[k])
         /\ ~HasError(pages_info[k + 1])

\* the sitemap fetch or its parse failed
SitemapFailed ==
    /\ flow = "sitemap"
    /\ httpLog # <<>>
    /\ httpLog[1].kind = "sitemap"
    /\ ~httpLog[1].ok

\* C5: when the sitemap is unreachable or malformed the failure is reported
\* and the batch does not proceed: the handler is over, no page was fetched
\* and no request was sent to the generation service.
C5_SitemapFailureStopsBatch ==
    SitemapFailed =>
        /\ pc = "done"
        /\ stErrors = <<"sitemap">>
        /\ PageFetches = <<>>
        /\ pages_info = <<>>
        /\ llmLog = <<>>

\* C5 witness: a sitemap batch whose sitemap fetch failed.
C5_Witness == SitemapFailed /\ pc = "done" /\ urls = <<>>

\* C6 as stated: in both kinds of batch at most 10 pages are fetched, and
\* min(10, N) when the loop is over.
C6_AtMostTenInEveryBatch ==
    flow \in {"sitemap", "urls"} =>
        /\ Len(PageFetches) <= BatchCap
        /\ LoopOver => Len(PageFetches) = Min(BatchCap, Len(urls))

\* C6 amended: a sitemap batch fetches min(10, N) pages, never more than 10;
\* a URL-list batch fetches all its N pages.
C6_TenPerSitemapBatchOnly ==
    /\ flow = "sitemap" =>
         /\ Len(PageFetches) <= BatchCap
         /\ LoopOver => Len(PageFetches) = Min(BatchCap, Len(urls))
    /\ flow = "urls" =>
         /\ Len(PageFetches) <= Len(urls)
         /\ LoopOver => Len(PageFetches) = Len(urls)

\* C6 witness: a sitemap batch of more than 10 URLs ended after 10 fetches.
C6_Witness ==
    /\ flow = "sitemap"
    /\ Len(urls) > BatchCap
    /\ pc = "done"
    /\ Len(PageFetches) = BatchCap

\* r is t without its leading and trailing whitespace
IsTrimOf(r, t) ==
    \E a \in 0..Len(t), b \in 0..Len(t) :
        /\ a + b <= Len(t)
        /\ r = SubSeq(t, a + 1, Len(t) - b)
        /\ \A k \in 1..a : t[k] \in Whitespace
        /\ \A k \in (Len(t) - b + 1)..Len(t) : t[k] \in Whitespace
        /\ r = <<>> \/ (r[1] \notin Whitespace /\ r[Len(r)] \notin Whitespace)

\* scrape_sitemap returned for a well-formed document that was fetched
SitemapResolved == pc = "returned" /\ arg.status = "ok" /\ arg.wellformed

\* the positions of the url/loc nodes of the sitemap namespace
UrlLocPositions(nodes) == {k \in 1..Len(nodes) : nodes[k].tag = "ns:url/ns:loc"}

\* those of them that have a non-empty text
TextLocPositions(nodes) == {k \in UrlLocPositions(nodes) : Truthy(nodes[k].text)}

\* C7 as stated: the result has min(50, number of url/loc nodes) URLs, the
\* trimmed texts of the first url/loc nodes in document order.
C7_CountsEveryLocNode ==
    SitemapResolved =>
        LET P == UrlLocPositions(arg.nodes)
        IN  /\ Len(ret) = Min(SitemapCap, Cardinality(P))
            /\ \A j \in 1..Len(ret) :
                 LET n == arg.nodes[NthOf(P, j)]
                 IN  ~IsNone(n.text) /\ IsTrimOf(ret[j], Val(n.text))

\* C7 amended: the result has min(50, number of url/loc nodes with a
\* non-empty text) URLs, the trimmed texts of the first such nodes in
\* document order; a url/loc node without text is skipped.
C7_CountsLocNodesWithText ==
    SitemapResolved =>
        LET P == TextLocPositions(arg.nodes)
        IN  /\ Len(ret) = Min(SitemapCap, Cardinality(P))
            /\ \A j \in 1..Len(ret) :
                 IsTrimOf(ret[j], Val(arg.nodes[NthOf(P, j)].text))

\* C7 witness: a document with a url/loc node without text and more than 50
\* with text was resolved to 50 URLs.
C7_Witness ==
    /\ SitemapResolved
    /\ Cardinality(TextLocPositions(arg.nodes)) > SitemapCap
    /\ TextLocPositions(arg.nodes) # UrlLocPositions(arg.nodes)
    /\ Len(ret) = SitemapCap

\* scrape_page returned a page record for a document that was fetched
PageExtracted == pc = "returned" /\ arg.resp.status = "ok" /\ ~HasError(ret)

ImgPositions(body) == {k \in 1..Len(body) : body[k].tag = "img"}

\* the positions of the <img> tags that have a non-empty src
SrcImgPositions(body) == {k \in ImgPositions(body) : Truthy(body[k].src)}

\* the positions of the first n <img> tags
FirstImgPositions(body, n) ==
    {k \in ImgPositions(body) :
        Cardinality({m \in ImgPositions(body) : m <= k}) <= n}

\* what scrape_page records of the <img> tag e of the page at url
ImageEntry(url, e) ==
    [src |-> urljoin(url, Val(e.src)), alt |-> GetOr(e.alt), title |-> GetOr(e.title)]

\* C8 as stated: images holds the first min(10, number of <img> with a src)
\* such tags, in document order.
C8_SrcTestBeforeCap ==
    PageExtracted =>
        LET body == arg.resp.doc.body
            P    == SrcImgPositions(body)
        IN  /\ Len(ret.images) = Min(ImageCap, Cardinality(P))
            /\ \A j \in 1..Len(ret.images) :
                 ret.images[j] = ImageEntry(arg.url, body[NthOf(P, j)])

\* C8 amended: images holds, in document order, those of the first 10 <img>
\* tags that have a non-empty src; a tag without src among the first 10
\* counts toward the cap.
C8_CapBeforeSrcTest ==
    PageExtracted =>
        LET body == arg.resp.doc.body
            P    == FirstImgPositions(body, ImageCap) \cap SrcImgPositions(body)
        IN  /\ Len(ret.images) = Cardinality(P)
            /\ \A j \in 1..Len(ret.images) :
                 ret.images[j] = ImageEntry(arg.url, body[NthOf(P, j)])

\* C8 witness: a page whose first 10 <img> tags lack a src and a later one
\* has it yielded no image.
C8_Witness ==
    /\ PageExtracted
    /\ FirstImgPositions(arg.resp.doc.body, ImageCap)
         \cap SrcImgPositions(arg.resp.doc.body) = {}
    /\ SrcImgPositions(arg.resp.doc.body) # {}
    /\ ret.images = <<>>

\* the body has a tag among tags with a class token the pattern matches
HasMarker(body, tags, alts) ==
    \E k \in 1..Len(body) :
        /\ body[k].tag \in tags
        /\ \E t \in 1..Len(body[k].class) : RegexSearch(alts, body[k].class[t])

PriceMarker(body) == HasMarker(body, {"div", "span"}, PricePattern)

ArticleMarker(body) == HasMarker(body, {"article", "div"}, ArticlePattern)

EventMarker(body) == HasMarker(body, {"div", "span"}, EventPattern)

AddressMarker(body) == HasMarker(body, {"div", "span"}, AddressPattern)

ContentTypes == {"product", "article", "event", "local_business", "webpage"}

\* C9: the content type is one of the five values, that of the first rule
\* that matches in the order price, article, event, address, and webpage
\* when none does; so only a price marker gives product, only an address
\* marker local_business, both product.
C9_FirstMatchingRuleWins ==
    PageExtracted =>
        LET body == arg.resp.doc.body
            ct   == ret.content_type
        IN  /\ ct \in ContentTypes
            /\ PriceMarker(body) => ct = "product"
            /\ (~PriceMarker(body) /\ ArticleMarker(body)) => ct = "article"
            /\ (~PriceMarker(body) /\ ~ArticleMarker(body) /\ EventMarker(body))
                 => ct = "event"
            /\ (~PriceMarker(body) /\ ~ArticleMarker(body) /\ ~EventMarker(body)
                  /\ AddressMarker(body)) => ct = "local_business"
            /\ (~PriceMarker(body) /\ ~ArticleMarker(body) /\ ~EventMarker(body)
                  /\ ~AddressMarker(body)) => ct = "webpage"

\* C9 witness: a page with a price marker and an address marker, and no
\* other, was classified product.
C9_Witness ==
    /\ PageExtracted
    /\ PriceMarker(arg.resp.doc.body)
    /\ AddressMarker(arg.resp.doc.body)
    /\ ~ArticleMarker(arg.resp.doc.body)
    /\ ~EventMarker(arg.resp.doc.body)
    /\ ret.content_type = "product"

\* C10 as stated: extraction has no failure of its own: the record of a page
\* that was fetched with success carries no `error`, and the handler of the
\* pasted markup raises nothing.
C10_ExtractionNeverFails ==
    /\ flow = "genraw" => pc # "crashed"
    /\ flow \in {"sitemap", "urls", "genurl"} =>
         \A k \in 1..Len(PageFetches) :
             (PageFetches[k].ok /\ k <= Len(pages_info)) => ~HasError(pages_info[k])

\* the value has the shape {"suggestions": [...]} with entries that are
\* objects holding schema_type and reason
MatchesShape(v) ==
    /\ v.kind = "dict"
    /\ ~IsNone(v.suggestions)
    /\ \A k \in 1..Len(Val(v.suggestions)) :
         LET e == Val(v.suggestions)[k]
         IN  e.kind = "dict" /\ ~IsNone(e.schema_type) /\ ~IsNone(e.reason)

\* the value reads as no suggestions: an object whose 'suggestions' is
\* missing or empty
NoSuggestions(v) == v.kind = "dict" /\ ~Truthy(v.suggestions)

\* C11 as stated: an answer of the generation service that does not match
\* the expected shape degrades to no suggestions: what
\* suggest_structured_data returned reads as no suggestions or has the
\* expected shape, and the handler that displays it does not raise.
C11_BadShapeDegrades ==
    (flow \in {"sitemap", "urls"} /\ pc \in {"show", "done", "crashed"}
       /\ SuggestRequests # <<>>)
        => /\ pc # "crashed"
           /\ NoSuggestions(suggestions) \/ MatchesShape(suggestions)

\* C12: for an error-free page record and any schema type, a call of
\* generate_structured_data sends exactly one generation request and raises
\* nothing; it returns the empty string when the service call fails and the
\* text of the answer, unchanged, when it succeeds.
C12_OneRequestRawAnswer ==
    (pc # "call" /\ ~HasError(arg.page)) =>
        /\ pc = "returned"
        /\ Len(llmLog) = 1
        /\ llmLog[1].kind = "generate"
        /\ llmLog[1].url = arg.page.url
        /\ arg.resp.status # "ok" => ret = <<>>
        /\ arg.resp.status = "ok" => ret = arg.resp.content

\* C12 witness: a call returned an answer that has surrounding whitespace.
C12_Witness ==
    /\ pc = "returned"
    /\ ~HasError(arg.page)
    /\ arg.resp.status = "ok"
    /\ ret # <<>>
    /\ ret[1] \in Whitespace

\* an extraction returned a page record
RecordExtracted == pc \in {"returned", "returned_raw"} /\ ~HasError(ret)

\* the entries of level l among the headings hs
AtLevel(hs, l) == SelectSeq(hs, LAMBDA h : h.level = l)

\* the positions of the <h l> tags of the body
HeadingPositions(body, l) == {k \in 1..Len(body) : body[k].tag = HeadingTag(l)}

\* C13: a page record of either extraction has at most 5 headings of each
\* level 1..6 and at most 10 images; the headings go by level from 1 to 6
\* and, within a level, are the first headings of that level of the
\* document in their order of appearance.
C13_HeadingAndImageCaps ==
    RecordExtracted =>
        LET body == arg.resp.doc.body
        IN  /\ Len(ret.images) <= ImageCap
            /\ \A k \in 1..Len(ret.headings) : ret.headings[k].level \in 1..6
            /\ \A k \in 1..(Len(ret.headings) - 1) :
                 ret.headings[k].level <= ret.headings[k + 1].level
            /\ \A l \in 1..6 :
                 LET hs == AtLevel(ret.headings, l)
                     P  == HeadingPositions(body, l)
                 IN  /\ Len(hs) <= HeadingCap
                     /\ Len(hs) <= Cardinality(P)
                     /\ \A j \in 1..Len(hs) :
                          IsTrimOf(hs[j].text, body[NthOf(P, j)].text)

\* C13 witness: scrape_page returned 5 headings of level 1 for a document
\* with more than 5 of them, followed by a heading of another level.
C13_Witness ==
    /\ pc = "returned"
    /\ ~HasError(ret)
    /\ Cardinality(HeadingPositions(arg.resp.doc.body, 1)) > HeadingCap
    /\ Len(AtLevel(ret.headings, 1)) = HeadingCap
    /\ Len(ret.headings) > HeadingCap

====
